---- MODULE Spec2Model ----
(***************************************************************************)
(* A model of the index synchronizer (server/src/vector/file.py), of the   *)
(* asynchronous change detector (src/watcher/awatcher.py) and of the       *)
(* threaded change detector (src/watcher/watcher.py).                      *)
(*                                                                         *)
(* Abstractions: log calls have no effect on the state and are left out;   *)
(* a queue item of the synchronizer stands for the path it names; a read,  *)
(* a chunking, an embed-and-store or a delete call of a collaborator ends  *)
(* with success or with an exception, chosen nondeterministically.         *)
(***************************************************************************)
EXTENDS Integers, Sequences, FiniteSets, TLC

(***************************************************************************)
(* Bounds of the model.                                                    *)
(***************************************************************************)
\* vector ids in use at one time
MaxIds == 3
\* capacity of FileManager.batch_queue as modelled
BatchQueueCap == 1
\* FileManagerConfig.batch_size as modelled
BatchSize == 2

\* clock ticks of one run
MaxTime == 4
\* EventBuffer.coalesce_window in clock ticks
CoalesceWindow == 2
\* capacity of AsyncFileWatcher.event_queue as modelled
EventQueueCap == 1

\* DEFAULT_FLUSH_INTERVAL of the threaded FileWatcher in clock ticks
FlushInterval == 2
\* capacity of the threaded FileWatcher.event_queue as modelled
TQueueCap == 1

\* calls of FileManager.stop in one run
MaxStops == 2

\* lines of the root .gitignore file
MaxRules == 2

\* largest embedding dimension and token limit of a saved configuration
MaxDim == 1

\* native events handed to the event loop and not yet handled
MaxHandOff == 2

Paths == {"a.py", "b.py"}
Contents == {"c1", "c2"}
\* what a read of a path returns: a text, or an exception for a file that
\* cannot be read as text (bytes that do not decode, no file at all)
FileStates == Contents \cup {"unreadable"}
EventTypes == {"FILE_CREATED", "FILE_MODIFIED", "FILE_DELETED", "FILE_MOVED"}

VARIABLES
    processed_files,  \* FileManager.processed_files: path -> FileMetadata
    batch_queue,      \* FileManager.batch_queue
    store,            \* the vector store: set of [id, source]
    proc,             \* the __process_file call that holds _process_lock
    bp_pc,            \* position of __batch_processor
    batch,            \* the batch being collected
    tasks,            \* __process_file calls of the gather not yet in the lock
    is_running,       \* FileManager.is_running
    last,             \* what the last step of __process_file read, raised, called
    now,              \* time.time(), in ticks
    events,           \* EventBuffer.events, in insertion order
    last_flush_time,  \* EventBuffer.last_flush_time
    event_queue,      \* AsyncFileWatcher.event_queue
    w_running,        \* AsyncFileWatcher.is_running
    pb_rest,          \* __process_buffer: events of the flush still to be put
    w_last,           \* "ignored" or "discarded" when the last step dropped its event
    detector,         \* the detector in use: "async" or "threaded"
    pending_events,   \* FileWatcher.pending_events, in insertion order
    flush_timer,      \* FileWatcher.flush_timer: due time of the Timer, -1 for None
    armed,            \* due times of the Timers that are started and not cancelled
    t_queue,          \* FileWatcher.event_queue
    t_flush,          \* the _flush_events call in progress on a Timer thread
    unfinished_tasks, \* batch_queue._unfinished_tasks > 0
    start_pc,         \* position of FileManager.start
    boot_rest,        \* __process_existing_files: files still to be enqueued
    stop_pc,          \* position of each FileManager.stop call
    stop_item,        \* the item each stop call took from batch_queue
    w_unfinished,     \* AsyncFileWatcher.event_queue._unfinished_tasks
    c_pc,             \* position of the consumer of get_event
    w_stop_pc,        \* position of AsyncFileWatcher.stop
    gi_lines,         \* the lines of the root .gitignore file
    gi_sub_lines,     \* the lines of s/.gitignore
    gi_tree,          \* the regular files of the repository tree
    m_patterns,       \* GitignorePatternMatcher.patterns
    gi_query,         \* the last is_path_ignored call: who answered, path, verdict
    sc_pc,            \* position of RepoScanner.scan
    sc_dirs,          \* collect_files: directories still to be listed
    sc_files,         \* find_all_non_ignored_files: all_files
    sc_denied,        \* directories whose listing raised PermissionError
    t_lastput,        \* the event FileWatcher._flush_events put last
    cfg_saved,        \* the ProjectConfig handed to __save_config last
    cfg_file,         \* the content of .gep/config.yaml
    cfg_loaded,       \* the ProjectConfig __load_config returned last
    pf_calls,         \* the __process_file calls of the gather and of stop()
    process_lock,     \* FileManager._process_lock is held
    loop_ready,       \* callbacks handed to the event loop, not yet run
    pending_tasks,    \* AsyncFileWatcher.pending_tasks
    w_thread          \* the thread the last step of the detector ran on

fmvars == <<processed_files, batch_queue, store,
            proc, bp_pc, batch, tasks, is_running, last, unfinished_tasks>>

lvars == <<start_pc, boot_rest, stop_pc, stop_item>>

wvars == <<now, events, last_flush_time, event_queue, w_running, pb_rest,
           w_last, detector>>

tvars == <<pending_events, flush_timer, armed, t_queue, t_flush, t_lastput>>

svars == <<w_unfinished, c_pc, w_stop_pc>>

wvars_but_last == <<now, events, last_flush_time, event_queue, w_running,
                    pb_rest, detector>>

gvars == <<gi_lines, gi_sub_lines, gi_tree, m_patterns, gi_query,
           sc_pc, sc_dirs, sc_files, sc_denied>>

cvars == <<cfg_saved, cfg_file, cfg_loaded>>

kvars == <<pf_calls, process_lock>>

hvars == <<loop_ready, pending_tasks, w_thread>>

vars == <<fmvars, wvars, tvars, lvars, svars, gvars, cvars, kvars, hvars>>

----
(***************************************************************************)
(* Helpers.                                                                *)
(***************************************************************************)
Range(s) == {s[i] : i \in DOMAIN s}

\* del d[k]
DictDel(d, k) == [q \in (DOMAIN d) \ {k} |-> d[q]]

\* d[k] = v
DictPut(d, k, v) == [q \in (DOMAIN d) \cup {k} |-> IF q = k THEN v ELSE d[q]]

\* hashlib.sha256(content.encode()).hexdigest(): distinct contents, distinct digests
hash_content(c) == IF c = "c1" THEN "h1" ELSE "h2"

\* RecursiveCharacterTextSplitter.split_text: the number of chunks of a content
split_text(c) == IF c = "c1" THEN 1 ELSE 2

\* __chunk_content: the splitter's chunks, or the whole content as one chunk
\* when the splitter raises
chunk_content(c, splitter_ok) == IF splitter_ok THEN split_text(c) ELSE 1

\* the ids of the store whose metadata names path p as their source
StoredIds(p) == {e.id : e \in {x \in store : x.source = p}}

Idle == [pc |-> "idle", owner |-> <<"none">>, path |-> "none", nchunks |-> 0,
         hash |-> "none", old |-> <<>>]

\* read: the text a read returned; raised: the call that raised ("read",
\* "chunk", "delete", "add"); call: the collaborator call that was started
NoObs == [read |-> "none", raised |-> "none", call |-> "none"]

----
(***************************************************************************)
(* FileManager: the index synchronizer.                                    *)
(***************************************************************************)

\* FileMetadata as __process_file stores it: is_processed is set to False
\* before the record is written
NewRecord(h, ids) == [content_hash |-> h, vector_ids |-> ids, is_processed |-> FALSE]

\* a stored record is complete when its in-progress flag (is_processed) is off
Complete(r) == ~r.is_processed

\* __handle_file_event, FILE_DELETED branch: the record map after the event
DeleteRecord(p) ==
    IF p \in DOMAIN processed_files THEN DictDel(processed_files, p)
                                    ELSE processed_files

\* await self.batch_queue.put(item): waits while the queue is full, then
\* appends the item and counts it as unfinished (task_done is never called on
\* batch_queue, so the count never goes back to zero)
QueuePut(p) ==
    /\ Len(batch_queue) < BatchQueueCap
    /\ batch_queue' = Append(batch_queue, p)
    /\ unfinished_tasks' = TRUE

\* __handle_file_event
HandleFileEvent(type, p) ==
    /\ UNCHANGED tvars
    /\ UNCHANGED gvars
    /\ UNCHANGED cvars
    /\ UNCHANGED kvars
    /\ UNCHANGED hvars
    /\ UNCHANGED svars
    /\ UNCHANGED wvars
    /\ UNCHANGED lvars
    /\ IF type = "FILE_DELETED"
          THEN /\ processed_files' = DeleteRecord(p)
               /\ UNCHANGED <<batch_queue, unfinished_tasks>>
          ELSE /\ QueuePut(p)
               /\ UNCHANGED processed_files
    /\ last' = NoObs
    /\ UNCHANGED <<store, proc, bp_pc, batch, tasks, is_running>>

\* __process_existing_files: one put of the loop over the files of the tree
EnqueueExisting(p) ==
    /\ UNCHANGED tvars
    /\ UNCHANGED gvars
    /\ UNCHANGED cvars
    /\ UNCHANGED kvars
    /\ UNCHANGED hvars
    /\ UNCHANGED svars
    /\ UNCHANGED wvars
    /\ UNCHANGED lvars
    /\ QueuePut(p)
    /\ last' = NoObs
    /\ UNCHANGED <<processed_files, store, proc, bp_pc, batch,
                   tasks, is_running>>

\* __batch_processor: wait_for(batch_queue.get()) returns an item
BP_Get ==
    /\ UNCHANGED tvars
    /\ UNCHANGED gvars
    /\ UNCHANGED cvars
    /\ UNCHANGED kvars
    /\ UNCHANGED hvars
    /\ UNCHANGED svars
    /\ UNCHANGED wvars
    /\ UNCHANGED lvars
    /\ bp_pc = "collect"
    /\ Len(batch) < BatchSize
    /\ batch_queue # <<>>
    /\ batch' = Append(batch, Head(batch_queue))
    /\ batch_queue' = Tail(batch_queue)
    /\ last' = NoObs
    /\ UNCHANGED <<processed_files, store, proc, bp_pc, tasks,
                   is_running, unfinished_tasks>>

\* __batch_processor: the batch is full or the wait timed out; gather starts
BP_Gather ==
    /\ UNCHANGED tvars
    /\ UNCHANGED gvars
    /\ UNCHANGED cvars
    /\ UNCHANGED kvars
    /\ UNCHANGED hvars
    /\ UNCHANGED svars
    /\ UNCHANGED wvars
    /\ UNCHANGED lvars
    /\ bp_pc = "collect"
    /\ batch # <<>>
    /\ (Len(batch) = BatchSize \/ batch_queue = <<>>)
    /\ bp_pc' = "gather"
    /\ tasks' = batch
    /\ batch' = <<>>
    /\ last' = NoObs
    /\ UNCHANGED <<processed_files, batch_queue, store, proc,
                   is_running, unfinished_tasks>>

\* __batch_processor: every __process_file of the gather has returned
BP_Done ==
    /\ UNCHANGED tvars
    /\ UNCHANGED gvars
    /\ UNCHANGED cvars
    /\ UNCHANGED kvars
    /\ UNCHANGED hvars
    /\ UNCHANGED svars
    /\ UNCHANGED wvars
    /\ UNCHANGED lvars
    /\ bp_pc = "gather"
    /\ tasks = <<>>
    /\ proc.owner # <<"bp">>
    /\ bp_pc' = IF is_running THEN "collect" ELSE "exited"
    /\ last' = NoObs
    /\ UNCHANGED <<processed_files, batch_queue, store, proc,
                   batch, tasks, is_running, unfinished_tasks>>

\* __process_file, lines 174-177: the record says the file is being processed
AlreadyProcessed(p) ==
    p \in DOMAIN processed_files /\ processed_files[p].is_processed

\* the hash comparison left out: every read counts as a change
HashNeverUnchanged(p, h) == FALSE

\* __process_file, lines 190-191: a record exists and its hash is unchanged
HashUnchanged(p, h) ==
    p \in DOMAIN processed_files /\ processed_files[p].content_hash = h

\* the except block without its del: the record survives the exception
OnErrorKeepsRecord(p) == processed_files

\* __process_file, the except block: the record map after an exception
OnError(p) ==
    IF p \in DOMAIN processed_files THEN DictDel(processed_files, p)
                                    ELSE processed_files

\* __process_file: the lock is taken and the read is started
PF_Begin(owner, p) ==
    /\ proc.pc = "idle"
    /\ proc' = IF AlreadyProcessed(p) THEN Idle
               ELSE [Idle EXCEPT !.pc = "read", !.owner = owner, !.path = p]
    /\ last' = NoObs

\* a __process_file of the gather takes _process_lock (the lock is first
\* come, first served: the calls enter in batch order)
PF_BeginBatch ==
    /\ UNCHANGED tvars
    /\ UNCHANGED gvars
    /\ UNCHANGED cvars
    /\ UNCHANGED kvars
    /\ UNCHANGED hvars
    /\ UNCHANGED svars
    /\ UNCHANGED wvars
    /\ UNCHANGED lvars
    /\ bp_pc = "gather"
    /\ tasks # <<>>
    /\ PF_Begin(<<"bp">>, Head(tasks))
    /\ tasks' = Tail(tasks)
    /\ UNCHANGED <<processed_files, batch_queue, store, bp_pc,
                   batch, is_running, unfinished_tasks>>

\* __embed, lines 232-235: the previous vector ids that have to be deleted
OldVectors(p) ==
    IF p \in DOMAIN processed_files THEN processed_files[p].vector_ids ELSE <<>>

\* __process_file, lines 187-196: the read returns or raises; on a changed
\* content __embed chunks it and makes its first collaborator call
PF_Read ==
    /\ UNCHANGED tvars
    /\ UNCHANGED gvars
    /\ UNCHANGED cvars
    /\ UNCHANGED kvars
    /\ UNCHANGED hvars
    /\ UNCHANGED svars
    /\ UNCHANGED wvars
    /\ UNCHANGED lvars
    /\ proc.pc = "read"
    /\ \E s \in FileStates :
       LET p == proc.path
       IN IF s \notin Contents
            THEN /\ processed_files' = OnError(p)
                 /\ proc' = Idle
                 /\ last' = [NoObs EXCEPT !.raised = "read"]
            ELSE IF HashUnchanged(p, hash_content(s))
              THEN /\ proc' = Idle
                   /\ last' = [NoObs EXCEPT !.read = s]
                   /\ UNCHANGED processed_files
              ELSE \E splitter_ok \in BOOLEAN :
                   /\ last' = [read |-> s,
                               raised |-> IF splitter_ok THEN "none" ELSE "chunk",
                               call |-> IF OldVectors(p) # <<>> THEN "delete"
                                                               ELSE "add"]
                   /\ proc' = [proc EXCEPT
                          !.pc = IF OldVectors(p) # <<>> THEN "delete" ELSE "add",
                          !.nchunks = chunk_content(s, splitter_ok),
                          !.hash = hash_content(s),
                          !.old = OldVectors(p)]
                   /\ UNCHANGED processed_files
    /\ UNCHANGED <<batch_queue, store, bp_pc, batch, tasks,
                   is_running, unfinished_tasks>>

\* EmbeddingManager.delete_vectors: the store after a successful delete
delete_vectors(ids) == {e \in store : e.id \notin Range(ids)}

\* __embed, line 235: delete_vectors returns or raises
PF_Delete ==
    /\ UNCHANGED tvars
    /\ UNCHANGED gvars
    /\ UNCHANGED cvars
    /\ UNCHANGED kvars
    /\ UNCHANGED hvars
    /\ UNCHANGED svars
    /\ UNCHANGED wvars
    /\ UNCHANGED lvars
    /\ proc.pc = "delete"
    /\ \E ok \in BOOLEAN :
         IF ok
           THEN /\ store' = delete_vectors(proc.old)
                /\ proc' = [proc EXCEPT !.pc = "add"]
                /\ last' = [NoObs EXCEPT !.call = "add"]
                /\ UNCHANGED processed_files
           ELSE /\ processed_files' = OnError(proc.path)
                /\ proc' = Idle
                /\ last' = [NoObs EXCEPT !.raised = "delete"]
                /\ UNCHANGED store
    /\ UNCHANGED <<batch_queue, bp_pc, batch, tasks, is_running, unfinished_tasks>>

\* ids that are neither in the store nor named by a record or a pending delete
FreeIds ==
    (1..MaxIds) \ ({e.id : e \in store}
                   \cup UNION {Range(processed_files[q].vector_ids) :
                                 q \in DOMAIN processed_files}
                   \cup Range(proc.old))

\* the i-th smallest element of a set of numbers
RECURSIVE Nth(_, _)
Nth(S, i) ==
    LET m == CHOOSE x \in S : \A y \in S : x <= y
    IN IF i = 1 THEN m ELSE Nth(S \ {m}, i - 1)

\* the ids the store returns for n chunks: new ones, one per chunk, in order
NewIds(n) == [i \in 1..n |-> Nth(FreeIds, i)]

\* __embed, line 237, and __process_file, lines 197-200: the embed-and-store
\* call returns and the record is written, or it raises
PF_Add ==
    /\ UNCHANGED tvars
    /\ UNCHANGED gvars
    /\ UNCHANGED cvars
    /\ UNCHANGED kvars
    /\ UNCHANGED hvars
    /\ UNCHANGED svars
    /\ UNCHANGED wvars
    /\ UNCHANGED lvars
    /\ proc.pc = "add"
    /\ \E ok \in BOOLEAN :
         IF ok
           THEN /\ Cardinality(FreeIds) >= proc.nchunks
                /\ store' = store \cup {[id |-> NewIds(proc.nchunks)[i],
                                          source |-> proc.path] : i \in 1..proc.nchunks}
                /\ processed_files' = DictPut(processed_files, proc.path,
                                             NewRecord(proc.hash, NewIds(proc.nchunks)))
                /\ last' = NoObs
           ELSE /\ processed_files' = OnError(proc.path)
                /\ last' = [NoObs EXCEPT !.raised = "add"]
                /\ UNCHANGED store
    /\ proc' = Idle
    /\ UNCHANGED <<batch_queue, bp_pc, batch, tasks, is_running, unfinished_tasks>>

----
(***************************************************************************)
(* FileManager._process_lock, with every __process_file call followed on   *)
(* its own: the calls of one gather of the batch processor and the call    *)
(* stop() makes in its drain loop.                                         *)
(***************************************************************************)

\* the calls of a gather, one per place of the batch, and the call of stop()
GatherCalls == 1..BatchSize

StopCall == BatchSize + 1

Calls == GatherCalls \cup {StopCall}

NoCall == [pc |-> "none", path |-> "none"]

\* the batches a gather is started with: a path may be in a batch twice
Batches == UNION {[1..n -> Paths] : n \in 1..BatchSize}

\* __batch_processor, line 146: gather starts a __process_file call for each
\* path of the batch; every call reaches async with self._process_lock
K_Gather(b) ==
    /\ \A i \in GatherCalls : pf_calls[i].pc = "none"
    /\ pf_calls' = [i \in Calls |-> IF i \in DOMAIN b
                                      THEN [pc |-> "wait", path |-> b[i]]
                                      ELSE pf_calls[i]]
    /\ UNCHANGED process_lock
    /\ UNCHANGED <<fmvars, wvars, tvars, lvars, svars, gvars, cvars, hvars>>

\* stop, lines 112-113: stop() calls __process_file for an item it took
K_StopProcess(p) ==
    /\ pf_calls[StopCall].pc = "none"
    /\ pf_calls' = [pf_calls EXCEPT ![StopCall] = [pc |-> "wait", path |-> p]]
    /\ UNCHANGED process_lock
    /\ UNCHANGED <<fmvars, wvars, tvars, lvars, svars, gvars, cvars, hvars>>

\* the call has returned: gather collects it, stop() goes on with its loop
Returned(i) == IF i = StopCall THEN NoCall ELSE [pf_calls[i] EXCEPT !.pc = "done"]

\* the lock left out: every call enters at once
NoLock == TRUE

\* asyncio.Lock.acquire returns only while the lock is not held
LockIsFree == ~process_lock

\* __process_file, lines 173-187: the call takes the lock and returns at once
\* (the record says the file is being processed) or starts its read
K_Acquire(i) ==
    /\ pf_calls[i].pc = "wait"
    /\ LockIsFree
    /\ \E skipped \in BOOLEAN :
         IF skipped
           THEN /\ pf_calls' = [pf_calls EXCEPT ![i] = Returned(i)]
                /\ UNCHANGED process_lock
           ELSE /\ pf_calls' = [pf_calls EXCEPT ![i].pc = "read"]
                /\ process_lock' = TRUE
    /\ UNCHANGED <<fmvars, wvars, tvars, lvars, svars, gvars, cvars, hvars>>

\* __process_file, lines 187-196: the read returns; the content is hashed and
\* the call ends (unchanged content, or the read raised) or __embed starts
K_Read(i) ==
    /\ pf_calls[i].pc = "read"
    /\ \E goes_on \in BOOLEAN :
         IF goes_on
           THEN /\ pf_calls' = [pf_calls EXCEPT ![i].pc = "embed"]
                /\ UNCHANGED process_lock
           ELSE /\ pf_calls' = [pf_calls EXCEPT ![i] = Returned(i)]
                /\ process_lock' = FALSE
    /\ UNCHANGED <<fmvars, wvars, tvars, lvars, svars, gvars, cvars, hvars>>

\* __process_file, lines 196-205: the collaborator calls return or raise, the
\* record is written or removed and the lock is released
K_Embed(i) ==
    /\ pf_calls[i].pc = "embed"
    /\ pf_calls' = [pf_calls EXCEPT ![i] = Returned(i)]
    /\ process_lock' = FALSE
    /\ UNCHANGED <<fmvars, wvars, tvars, lvars, svars, gvars, cvars, hvars>>

\* __batch_processor, line 146: every call of the gather has returned
K_GatherDone ==
    /\ \E i \in GatherCalls : pf_calls[i].pc = "done"
    /\ \A i \in GatherCalls : pf_calls[i].pc \in {"none", "done"}
    /\ pf_calls' = [i \in Calls |-> IF i \in GatherCalls THEN NoCall ELSE pf_calls[i]]
    /\ UNCHANGED process_lock
    /\ UNCHANGED <<fmvars, wvars, tvars, lvars, svars, gvars, cvars, hvars>>

\* no __process_file call was started
KIdle ==
    /\ pf_calls = [i \in Calls |-> NoCall]
    /\ process_lock = FALSE

LockNext ==
    \/ \E b \in Batches : K_Gather(b)
    \/ \E p \in Paths : K_StopProcess(p)
    \/ \E i \in Calls : K_Acquire(i)
    \/ \E i \in Calls : K_Read(i)
    \/ \E i \in Calls : K_Embed(i)
    \/ K_GatherDone

----
(***************************************************************************)
(* AsyncFileWatcher: the asynchronous change detector.  A path is the      *)
(* sequence of its characters, relative to the watched root.               *)
(***************************************************************************)
P_a  == <<"a">>
P_bl == <<"b", ".", "l">>
P_ga == <<"g", "/", "a">>
WPaths == {P_a, P_bl, P_ga}

\* AsyncFileWatcher.ignored_patterns: "*.l" and "g"
ignored_patterns == {<<"*", ".", "l">>, <<"g">>}

\* what watchdog reports: file events that __get_event_type maps, and any
\* other event, which it maps to None
NativeKinds == {"FILE_CREATED", "FILE_MODIFIED", "other"}

\* str.endswith
EndsWith(s, suf) ==
    /\ Len(suf) <= Len(s)
    /\ SubSeq(s, Len(s) - Len(suf) + 1, Len(s)) = suf

\* str.startswith
StartsWith(s, pre) ==
    /\ Len(pre) <= Len(s)
    /\ SubSeq(s, 1, Len(pre)) = pre

\* fnmatch of one path segment against a pattern with * and ?
RECURSIVE FnMatch(_, _)
FnMatch(name, pat) ==
    IF pat = <<>> THEN name = <<>>
    ELSE IF Head(pat) = "*"
           THEN \/ FnMatch(name, Tail(pat))
                \/ (name # <<>> /\ FnMatch(Tail(name), pat))
    ELSE IF name = <<>> THEN FALSE
    ELSE (Head(pat) = "?" \/ Head(pat) = Head(name))
         /\ FnMatch(Tail(name), Tail(pat))

\* the segments of a path, split at "/"
RECURSIVE Segments(_)
Segments(s) ==
    IF \A i \in DOMAIN s : s[i] # "/" THEN <<s>>
    ELSE LET k == CHOOSE i \in DOMAIN s :
                     s[i] = "/" /\ \A j \in 1..(i - 1) : s[j] # "/"
         IN <<SubSeq(s, 1, k - 1)>> \o Segments(SubSeq(s, k + 1, Len(s)))

\* pathlib.PurePath.match with a relative pattern: the pattern's segments
\* are matched against the last segments of the path
PathMatch(path, pat) ==
    LET ps == Segments(path)
        qs == Segments(pat)
    IN /\ Len(qs) <= Len(ps)
       /\ \A i \in 1..Len(qs) :
              FnMatch(ps[Len(ps) - Len(qs) + i], qs[i])

\* AsyncFileWatcher.__should_ignore
should_ignore(path) ==
    \E pat \in ignored_patterns :
        IF \E i \in DOMAIN pat : pat[i] \in {"*", "?"}
          THEN PathMatch(path, pat)
          ELSE EndsWith(path, pat)

\* the ignore check left out of __handle_event
IgnoredByHandlerOff(path) == FALSE

\* __handle_event, lines 173-175: the event is dropped
IgnoredByHandler(path) == should_ignore(path)

\* the age test left out: the new event always replaces the buffered one
NeverYounger(ev, t) == FALSE

\* EventBuffer.add_event, line 109: the buffered event is younger than the window
Younger(ev, t) == t - ev.mod_time < CoalesceWindow

\* the place of path's event in the buffer, 0 when it has none
IndexOf(evs, path) ==
    IF \E i \in DOMAIN evs : evs[i].path = path
      THEN CHOOSE i \in DOMAIN evs : evs[i].path = path
      ELSE 0

\* EventBuffer.add_event: the buffer after the call
add_event(evs, e, t) ==
    LET i == IndexOf(evs, e.path)
    IN IF i # 0
         THEN IF Younger(evs[i], t) THEN evs ELSE [evs EXCEPT ![i] = e]
         ELSE Append(evs, e)

\* AsyncFileWatcher.__handle_event
handle_event(kind, path) ==
    /\ detector = "async"
    /\ UNCHANGED tvars
    /\ UNCHANGED gvars
    /\ UNCHANGED cvars
    /\ UNCHANGED kvars
    /\ UNCHANGED svars
    /\ UNCHANGED fmvars
    /\ UNCHANGED lvars
    /\ w_running
    /\ IF IgnoredByHandler(path)
         THEN /\ w_last' = "ignored"
              /\ UNCHANGED events
         ELSE IF kind = "other"
           THEN /\ w_last' = "none"
                /\ UNCHANGED events
           ELSE LET e == [type |-> kind, path |-> path, mod_time |-> now]
                IN /\ events' = add_event(events, e, now)
                   /\ w_last' = IF events' = events THEN "discarded" ELSE "none"
    /\ UNCHANGED <<now, last_flush_time, event_queue, w_running, pb_rest, detector>>

\* __handle_event run in the event loop for one native event, the hand-off
\* from the observer thread not followed
WHandleEvent(kind, path) ==
    /\ handle_event(kind, path)
    /\ UNCHANGED hvars

\* EventBuffer.get_pending_events, line 120: the window has elapsed
WindowElapsed == now - last_flush_time >= CoalesceWindow

\* __process_buffer, line 283: get_pending_events hands over the buffer
PB_Flush ==
    /\ detector = "async"
    /\ UNCHANGED tvars
    /\ UNCHANGED gvars
    /\ UNCHANGED cvars
    /\ UNCHANGED kvars
    /\ UNCHANGED hvars
    /\ UNCHANGED svars
    /\ UNCHANGED fmvars
    /\ UNCHANGED lvars
    /\ w_running
    /\ pb_rest = <<>>
    /\ WindowElapsed
    /\ pb_rest' = events
    /\ events' = <<>>
    /\ last_flush_time' = now
    /\ w_last' = "none"
    /\ UNCHANGED <<now, event_queue, w_running, detector>>

\* __process_buffer, line 286: await event_queue.put(event) returns once the
\* queue has room (put never raises QueueFull)
PB_Put ==
    /\ detector = "async"
    /\ UNCHANGED tvars
    /\ UNCHANGED gvars
    /\ UNCHANGED cvars
    /\ UNCHANGED kvars
    /\ UNCHANGED hvars
    /\ UNCHANGED fmvars
    /\ UNCHANGED lvars
    /\ pb_rest # <<>>
    /\ Len(event_queue) < EventQueueCap
    /\ event_queue' = Append(event_queue, Head(pb_rest))
    /\ w_unfinished' = w_unfinished + 1
    /\ UNCHANGED <<c_pc, w_stop_pc>>
    /\ pb_rest' = Tail(pb_rest)
    /\ w_last' = "none"
    /\ UNCHANGED <<now, events, last_flush_time, w_running, detector>>

\* get_event while the detector runs: the consumer takes the next event,
\* handles it without waiting and marks it done
W_Consume ==
    /\ detector = "async"
    /\ UNCHANGED tvars
    /\ UNCHANGED gvars
    /\ UNCHANGED cvars
    /\ UNCHANGED kvars
    /\ UNCHANGED hvars
    /\ UNCHANGED fmvars
    /\ UNCHANGED lvars
    /\ w_running
    /\ c_pc = "get"
    /\ event_queue # <<>>
    /\ event_queue' = Tail(event_queue)
    /\ w_unfinished' = w_unfinished - 1
    /\ UNCHANGED <<c_pc, w_stop_pc>>
    /\ w_last' = "none"
    /\ UNCHANGED <<now, events, last_flush_time, w_running, pb_rest, detector>>

\* the event loop is cooperative: another coroutine gets its turn only when
\* the flush task has nothing to put or waits for room in event_queue
FlushWaits == pb_rest = <<>> \/ Len(event_queue) >= EventQueueCap

\* get_event, lines 239-240: the consumer, waiting in get(), takes the next
\* event and has it yielded
W_Get ==
    /\ detector = "async"
    /\ FlushWaits
    /\ c_pc = "get"
    /\ event_queue # <<>>
    /\ event_queue' = Tail(event_queue)
    /\ c_pc' = "yielded"
    /\ w_last' = "none"
    /\ UNCHANGED <<now, events, last_flush_time, w_running, pb_rest, detector>>
    /\ UNCHANGED <<w_unfinished, w_stop_pc>>
    /\ UNCHANGED tvars
    /\ UNCHANGED gvars
    /\ UNCHANGED cvars
    /\ UNCHANGED kvars
    /\ UNCHANGED hvars
    /\ UNCHANGED fmvars
    /\ UNCHANGED lvars

\* get_event, lines 236 and 241: the consumer is back, task_done() counts the
\* event as finished and wakes a waiting join() when none is left; the loop
\* goes on only while the detector is running
W_TaskDone ==
    /\ detector = "async"
    /\ c_pc = "yielded"
    /\ w_unfinished' = w_unfinished - 1
    /\ w_stop_pc' = IF w_stop_pc = "join" /\ w_unfinished = 1 THEN "woken"
                                                              ELSE w_stop_pc
    /\ c_pc' = IF w_running THEN "get" ELSE "exited"
    /\ w_last' = "none"
    /\ UNCHANGED wvars_but_last
    /\ UNCHANGED tvars
    /\ UNCHANGED gvars
    /\ UNCHANGED cvars
    /\ UNCHANGED kvars
    /\ UNCHANGED hvars
    /\ UNCHANGED fmvars
    /\ UNCHANGED lvars

\* AsyncFileWatcher.stop, lines 251-267: is_running is cleared, the observer
\* is stopped and joined, and stop awaits event_queue.join(), which returns
\* at once when no event is unfinished
W_Stop ==
    /\ detector = "async"
    /\ FlushWaits
    /\ w_stop_pc = "idle"
    /\ w_running
    /\ w_running' = FALSE
    /\ w_stop_pc' = IF w_unfinished > 0 THEN "join" ELSE "returned"
    /\ w_last' = "none"
    /\ UNCHANGED <<now, events, last_flush_time, event_queue, pb_rest, detector>>
    /\ UNCHANGED <<w_unfinished, c_pc>>
    /\ UNCHANGED tvars
    /\ UNCHANGED gvars
    /\ UNCHANGED cvars
    /\ UNCHANGED kvars
    /\ UNCHANGED hvars
    /\ UNCHANGED fmvars
    /\ UNCHANGED lvars

\* AsyncFileWatcher.stop, lines 267-274: the woken join() returns (it does not
\* look at the count again) and stop returns
W_StopReturn ==
    /\ detector = "async"
    /\ FlushWaits
    /\ w_stop_pc = "woken"
    /\ w_stop_pc' = "returned"
    /\ w_last' = "none"
    /\ UNCHANGED wvars_but_last
    /\ UNCHANGED <<w_unfinished, c_pc>>
    /\ UNCHANGED tvars
    /\ UNCHANGED gvars
    /\ UNCHANGED cvars
    /\ UNCHANGED kvars
    /\ UNCHANGED hvars
    /\ UNCHANGED fmvars
    /\ UNCHANGED lvars

\* time passes
Tick ==
    /\ UNCHANGED tvars
    /\ UNCHANGED gvars
    /\ UNCHANGED cvars
    /\ UNCHANGED kvars
    /\ UNCHANGED hvars
    /\ UNCHANGED svars
    /\ UNCHANGED fmvars
    /\ UNCHANGED lvars
    /\ now < MaxTime
    /\ now' = now + 1
    /\ w_last' = "none"
    /\ UNCHANGED <<events, last_flush_time, event_queue, w_running, pb_rest, detector>>

----
(***************************************************************************)
(* AsyncEventHandler: the hand-off of a native event from the observer     *)
(* thread to the event loop.                                               *)
(***************************************************************************)

\* a callback run synchronously, on the thread that handed it over
CallerThread == "observer"

\* loop.call_soon_threadsafe: the callback is run by the event loop's thread
CallbackThread == "loop"

\* AsyncEventHandler.on_any_event, on the observer thread: _create_task is
\* handed to the loop with the event
O_AnyEvent(kind, path) ==
    /\ detector = "async"
    /\ Len(loop_ready) + Len(pending_tasks) < MaxHandOff
    /\ loop_ready' = Append(loop_ready, [kind |-> kind, path |-> path])
    /\ w_thread' = "observer"
    /\ UNCHANGED pending_tasks
    /\ UNCHANGED <<fmvars, wvars, tvars, lvars, svars, gvars, cvars, kvars>>

\* AsyncEventHandler._create_task: a task is created for the callback of the
\* event and added to pending_tasks
H_CreateTask ==
    /\ detector = "async"
    /\ loop_ready # <<>>
    /\ loop_ready' = Tail(loop_ready)
    /\ pending_tasks' = Append(pending_tasks, Head(loop_ready))
    /\ w_thread' = CallbackThread
    /\ UNCHANGED <<fmvars, wvars, tvars, lvars, svars, gvars, cvars, kvars>>

\* the task runs __handle_event in the event loop; its done callback
\* discards it from pending_tasks
H_RunTask ==
    /\ pending_tasks # <<>>
    /\ handle_event(Head(pending_tasks).kind, Head(pending_tasks).path)
    /\ pending_tasks' = Tail(pending_tasks)
    /\ w_thread' = "loop"
    /\ UNCHANGED loop_ready

\* no native event was received
HIdle ==
    /\ loop_ready = <<>>
    /\ pending_tasks = <<>>
    /\ w_thread = "none"

HandOffNext ==
    \/ \E k \in NativeKinds, p \in WPaths : O_AnyEvent(k, p)
    \/ H_CreateTask
    \/ H_RunTask

----
(***************************************************************************)
(* Exclusion rules: GitignorePattern and GitignorePatternMatcher           *)
(* (server/src/project/pattern_matcher.py) and the rule functions of       *)
(* RepoScanner (server/src/project/scan.py).  A string is the sequence of  *)
(* its characters; fnmatch is FnMatch, in which * also matches "/".  No    *)
(* rule line of the model holds "**" without a "/", so that branch of the  *)
(* unanchored match is not taken.                                          *)
(***************************************************************************)

\* rule lines: "*.l", "!k.l", "s/", "/b"
L_star_l == <<"*", ".", "l">>
L_not_k  == <<"!", "k", ".", "l">>
L_dir_s  == <<"s", "/">>
L_anc_b  == <<"/", "b">>
RuleLines == {L_star_l, L_not_k, L_dir_s, L_anc_b}

\* rule files of at most MaxRules lines
RuleFiles == UNION {[1..n -> RuleLines] : n \in 0..MaxRules}

\* what s/.gitignore may hold: no file, "!k.l" or "/b"
SubRuleFiles == {<<>>, <<L_not_k>>, <<L_anc_b>>}

N_gitignore == <<".", "g", "i", "t", "i", "g", "n", "o", "r", "e">>
N_git == <<".", "g", "i", "t">>
N_gep == <<".", "g", "e", "p">>
N_s == <<"s">>

\* os.path.join of a directory (the root is the empty string) and a name
PathJoin(dir, name) == IF dir = <<>> THEN name ELSE dir \o <<"/">> \o name

\* GitignorePattern.from_line and GitignorePattern.__init__
from_line(line, base_dir) ==
    LET is_negated == line # <<>> /\ Head(line) = "!"
        p0 == IF is_negated THEN Tail(line) ELSE line
        is_anchored == p0 # <<>> /\ Head(p0) = "/"
        p1 == IF is_anchored THEN Tail(p0) ELSE p0
        is_dir_only == p1 # <<>> /\ p1[Len(p1)] = "/"
        p2 == IF is_dir_only THEN SubSeq(p1, 1, Len(p1) - 1) ELSE p1
    IN [pattern |-> p2,
        is_negated |-> is_negated,
        base_dir |-> IF base_dir # <<>> /\ base_dir[Len(base_dir)] # "/"
                       THEN base_dir \o <<"/">> ELSE base_dir,
        is_anchored |-> is_anchored,
        is_dir_only |-> is_dir_only]

\* load_patterns_from_gitignore: one pattern per line, in file order
load_patterns_from_gitignore(lines, base_dir) ==
    [i \in 1..Len(lines) |-> from_line(lines[i], base_dir)]

\* GitignorePatternMatcher.is_pattern_applicable
is_pattern_applicable(path, pat) ==
    \/ pat.base_dir = <<>>
    \/ path = pat.base_dir
    \/ StartsWith(path, pat.base_dir)

\* GitignorePatternMatcher._get_relative_path, for an applicable pattern
get_relative_path(path, pat) ==
    IF pat.base_dir # <<>>
      THEN LET rel == SubSeq(path, Len(pat.base_dir) + 1, Len(path))
           IN IF rel # <<>> /\ Head(rel) = "/" THEN Tail(rel) ELSE rel
      ELSE path

\* GitignorePatternMatcher._match_unanchored_pattern, and lines 151-169 of
\* RepoScanner.match_gitignore_pattern
match_unanchored_pattern(path, pattern_str) ==
    IF \E i \in DOMAIN pattern_str : pattern_str[i] = "/"
      THEN \/ FnMatch(path, pattern_str)
           \/ FnMatch(path, <<"*", "/">> \o pattern_str)
      ELSE \E i \in DOMAIN Segments(path) : FnMatch(Segments(path)[i], pattern_str)

\* the anchor flag ignored: every rule is matched as an unanchored one
NeverAnchored(pat) == FALSE

\* does_pattern_match, line 239: the rule is anchored
IsAnchored(pat) == pat.is_anchored

\* GitignorePatternMatcher.does_pattern_match
does_pattern_match(path, pat) ==
    /\ is_pattern_applicable(path, pat)
    /\ (pat.base_dir # <<>> => StartsWith(path, pat.base_dir))
    /\ IF IsAnchored(pat)
         THEN FnMatch(get_relative_path(path, pat), pat.pattern)
         ELSE match_unanchored_pattern(get_relative_path(path, pat), pat.pattern)

\* the loop of is_path_ignored stopped at the first matching rule
FirstMatchWins(ignored, matches, is_negated) == IF matches /\ ~ignored THEN ~is_negated ELSE ignored

\* is_path_ignored, lines 290-292 (scan.py lines 187-190): the flag after a rule
Verdict(ignored, matches, is_negated) == IF matches THEN ~is_negated ELSE ignored

\* GitignorePatternMatcher.is_path_ignored: the flag after the first n rules
RECURSIVE IgnoredAfter(_, _, _)
IgnoredAfter(path, pats, n) ==
    IF n = 0 THEN FALSE
    ELSE Verdict(IgnoredAfter(path, pats, n - 1),
                 does_pattern_match(path, pats[n]), pats[n].is_negated)

\* GitignorePatternMatcher.is_path_ignored
is_path_ignored(path, pats) == IgnoredAfter(path, pats, Len(pats))

\* RepoScanner._parse_gitignore: (pattern, is_negated) for each line
parse_gitignore(lines) ==
    [i \in 1..Len(lines) |->
        [pattern |-> IF Head(lines[i]) = "!" THEN Tail(lines[i]) ELSE lines[i],
         is_negated |-> Head(lines[i]) = "!"]]

\* RepoScanner.match_gitignore_pattern
match_gitignore_pattern(pattern, path) ==
    LET is_dir_pattern == pattern[Len(pattern)] = "/"
        p1 == IF is_dir_pattern THEN SubSeq(pattern, 1, Len(pattern) - 1) ELSE pattern
    IN IF p1 # <<>> /\ Head(p1) = "/"
         THEN FnMatch(path, Tail(p1))
         ELSE match_unanchored_pattern(path, p1)

\* RepoScanner.is_path_ignored: the flag after the first n rules
RECURSIVE ScanIgnoredAfter(_, _, _)
ScanIgnoredAfter(path, pats, n) ==
    IF n = 0 THEN FALSE
    ELSE Verdict(ScanIgnoredAfter(path, pats, n - 1),
                 match_gitignore_pattern(pats[n].pattern, path), pats[n].is_negated)

\* RepoScanner.is_path_ignored
RepoScanner_is_path_ignored(path, pats) == ScanIgnoredAfter(path, pats, Len(pats))

\* GitignorePatternMatcher.load_all_patterns: the root rules, then the rules
\* of the nested rule files, sorted by the depth of their directory
load_all_patterns ==
    load_patterns_from_gitignore(gi_lines, <<>>)
        \o load_patterns_from_gitignore(gi_sub_lines, N_s)

\* the paths is_path_ignored is asked about
F_a  == <<"a">>
F_kl == <<"k", ".", "l">>
F_ol == <<"o", ".", "l">>
F_bl == <<"b", ".", "l">>
F_s  == <<"s">>
F_b  == <<"b">>
F_sb == <<"s", "/", "b">>
F_skl == <<"s", "/", "k", ".", "l">>
F_sol == <<"s", "/", "o", ".", "l">>
F_gitH == <<".", "g", "i", "t", "/", "H">>
F_gepc == <<".", "g", "e", "p", "/", "c">>
QPaths == {F_a, F_kl, F_ol, F_s, F_b, F_sb, F_skl, F_sol}

NoQuery == [who |-> "none", path |-> <<>>, ignored |-> FALSE]

\* the files a tree may hold besides its rule files
BaseFiles == {F_a, F_bl, F_skl, F_sol, F_gitH, F_gepc}
Trees == SUBSET BaseFiles

\* the regular files of the tree, rule files included
AllFiles ==
    gi_tree \cup (IF gi_lines # <<>> THEN {N_gitignore} ELSE {})
            \cup (IF gi_sub_lines # <<>> THEN {PathJoin(N_s, N_gitignore)} ELSE {})

\* the first n segments of a path, joined again
RECURSIVE JoinSegs(_, _)
JoinSegs(segs, n) ==
    IF n = 1 THEN segs[1] ELSE JoinSegs(segs, n - 1) \o <<"/">> \o segs[n]

\* the number of segments of a directory path; the root has none
Depth(dir) == IF dir = <<>> THEN 0 ELSE Len(Segments(dir))

\* f lies in the directory dir or beneath it
Beneath(dir, f) == dir = <<>> \/ StartsWith(f, dir \o <<"/">>)

\* directory.iterdir(): the entries of a directory, each with its kind
Items(dir) ==
    {[path |-> JoinSegs(Segments(f), Depth(dir) + 1),
      is_file |-> Len(Segments(f)) = Depth(dir) + 1] :
        f \in {g \in AllFiles : Beneath(dir, g)}}

\* item.name
Name(path) == Segments(path)[Len(Segments(path))]

\* a set as a list
RECURSIVE SeqOf(_)
SeqOf(S) == IF S = {} THEN <<>>
            ELSE LET x == CHOOSE y \in S : TRUE IN <<x>> \o SeqOf(S \ {x})

\* GitignorePatternMatcher.load_all_patterns is called
M_Load ==
    /\ sc_pc = "idle"
    /\ gi_query.who = "none"
    /\ m_patterns' = load_all_patterns
    /\ UNCHANGED <<gi_lines, gi_sub_lines, gi_tree, gi_query, sc_pc, sc_dirs,
                   sc_files, sc_denied>>
    /\ UNCHANGED <<fmvars, wvars, tvars, lvars, svars, cvars, kvars, hvars>>

\* GitignorePatternMatcher.is_path_ignored is called
M_Query(path) ==
    /\ sc_pc = "idle"
    /\ gi_query.who = "none"
    /\ gi_query' = [who |-> "matcher", path |-> path,
                    ignored |-> is_path_ignored(path, m_patterns)]
    /\ UNCHANGED <<gi_lines, gi_sub_lines, gi_tree, m_patterns, sc_pc, sc_dirs,
                   sc_files, sc_denied>>
    /\ UNCHANGED <<fmvars, wvars, tvars, lvars, svars, cvars, kvars, hvars>>

\* RepoScanner.is_path_ignored is called with the rules of _parse_gitignore
S_Query(path) ==
    /\ sc_pc = "idle"
    /\ gi_query.who = "none"
    /\ gi_query' = [who |-> "scanner", path |-> path,
                    ignored |-> RepoScanner_is_path_ignored(path,
                                                            parse_gitignore(gi_lines))]
    /\ UNCHANGED <<gi_lines, gi_sub_lines, gi_tree, m_patterns, sc_pc, sc_dirs,
                   sc_files, sc_denied>>
    /\ UNCHANGED <<fmvars, wvars, tvars, lvars, svars, cvars, kvars, hvars>>

\* RepoScanner.scan, line 19, and find_all_non_ignored_files, lines 86-88 and
\* 121: the root rule file is parsed and collect_files starts at the root
Sc_Begin ==
    /\ sc_pc = "idle"
    /\ gi_query.who = "none"
    /\ m_patterns = <<>>
    /\ sc_pc' = "collect"
    /\ sc_dirs' = << <<>> >>
    /\ sc_files' = <<>>
    /\ sc_denied' = {}
    /\ UNCHANGED <<gi_lines, gi_sub_lines, gi_tree, m_patterns, gi_query>>
    /\ UNCHANGED <<fmvars, wvars, tvars, lvars, svars, cvars, kvars, hvars>>

\* the ignore test left out of collect_files: no entry is skipped
NeverSkipped(path) == FALSE

\* collect_files, line 109: the entry is skipped
SkippedByScanner(path) ==
    RepoScanner_is_path_ignored(path, parse_gitignore(gi_lines))

\* collect_files for one directory: the listing raises PermissionError and
\* the directory is given up, or its entries that are not ignored are taken:
\* files into all_files, directories other than .git to be walked in turn
Sc_Collect ==
    /\ sc_pc = "collect"
    /\ sc_dirs # <<>>
    /\ LET dir == Head(sc_dirs)
           kept == {it \in Items(dir) : ~SkippedByScanner(it.path)}
           files == {it.path : it \in {x \in kept : x.is_file}}
           dirs == {it.path : it \in {x \in kept : ~x.is_file /\ Name(x.path) # N_git}}
       IN \E denied \in BOOLEAN :
            IF denied
              THEN /\ sc_denied' = sc_denied \cup {dir}
                   /\ sc_dirs' = Tail(sc_dirs)
                   /\ UNCHANGED sc_files
              ELSE /\ sc_files' = sc_files \o SeqOf(files)
                   /\ sc_dirs' = SeqOf(dirs) \o Tail(sc_dirs)
                   /\ UNCHANGED sc_denied
    /\ UNCHANGED sc_pc
    /\ UNCHANGED <<gi_lines, gi_sub_lines, gi_tree, m_patterns, gi_query>>
    /\ UNCHANGED <<fmvars, wvars, tvars, lvars, svars, cvars, kvars, hvars>>

\* scan, lines 21-35: the getsize calls of the gather all return and scan
\* returns its list, or one of them raises and so do gather and scan
Sc_Gather ==
    /\ sc_pc = "collect"
    /\ sc_dirs = <<>>
    /\ \E ok \in BOOLEAN :
         /\ (~ok => sc_files # <<>>)
         /\ sc_pc' = IF ok THEN "returned" ELSE "raised"
    /\ UNCHANGED <<gi_lines, gi_sub_lines, gi_tree, m_patterns, gi_query,
                   sc_dirs, sc_files, sc_denied>>
    /\ UNCHANGED <<fmvars, wvars, tvars, lvars, svars, cvars, kvars, hvars>>

\* no rule file, no tree and no scan: the state of these variables in the
\* specifications that are not about exclusion rules
GIdle ==
    /\ gi_lines = <<>>
    /\ gi_sub_lines = <<>>
    /\ gi_tree = {}
    /\ m_patterns = <<>>
    /\ gi_query = NoQuery
    /\ sc_pc = "idle"
    /\ sc_dirs = <<>>
    /\ sc_files = <<>>
    /\ sc_denied = {}

\* a tree with its rule files, before anything is asked of it
GInit ==
    /\ gi_lines \in RuleFiles
    /\ gi_sub_lines \in SubRuleFiles
    /\ gi_tree \in Trees
    /\ m_patterns = <<>>
    /\ gi_query = NoQuery
    /\ sc_pc = "idle"
    /\ sc_dirs = <<>>
    /\ sc_files = <<>>
    /\ sc_denied = {}

IgnoreNext ==
    \/ M_Load
    \/ \E p \in QPaths : M_Query(p)
    \/ \E p \in QPaths : S_Query(p)
    \/ Sc_Begin
    \/ Sc_Collect
    \/ Sc_Gather

----
(***************************************************************************)
(* ProjectManager: saving the project configuration to .gep/config.yaml    *)
(* and loading it back.  A Path is a record holding its string, an enum    *)
(* member a record holding its value, None the empty sequence and a value  *)
(* that may be None a one-element sequence.  A YAML document is the        *)
(* mapping with one token per scalar.  The float fields of LLMConfig are   *)
(* left out: they are written and read the way the integer fields are.     *)
(***************************************************************************)

NoneVal == <<>>

Some(x) == <<x>>

Path(s) == [path |-> s]

str(p) == p.path

EmbeddingProviderType(v) == [value |-> v]

LLMType(v) == [value |-> v]

VectorStoreType(v) == [value |-> v]

\* an empty dict
EmptyDict == {}

\* the configurations that are saved: constructed ProjectConfig objects,
\* whose vector dimension equals the embedding dimension
Configs ==
    { [root_dir |-> Path("/p"),
       emb_config |-> [embedding_type |-> EmbeddingProviderType("openai"),
                       model_name |-> "text-embedding-3-small",
                       batch_size |-> 1,
                       dimension |-> d,
                       additional_params |-> NoneVal],
       llm_config |-> [llm_type |-> LLMType("openai"),
                       model_name |-> "gpt-4",
                       max_tokens |-> mt,
                       additional_params |-> NoneVal],
       vector_config |-> [store_type |-> VectorStoreType("faiss"),
                          persist_dir |-> Path("/p/vectors"),
                          dimension |-> d,
                          additional_params |-> ap],
       ignore_patterns |-> ip,
       accepted_patterns |-> acp] :
      d \in 0..MaxDim,
      mt \in {NoneVal} \cup {Some(n) : n \in 0..MaxDim},
      ap \in {NoneVal, Some(EmptyDict)},
      ip \in {<<>>, <<"*.log">>},
      acp \in {<<>>, <<"*.py">>} }

\* create_config_dict
create_config_dict(config) ==
    [root_dir |-> str(config.root_dir),
     embedding_config |->
        [embedding_type |-> config.emb_config.embedding_type.value,
         model_name |-> config.emb_config.model_name,
         batch_size |-> config.emb_config.batch_size,
         dimension |-> config.emb_config.dimension,
         additional_params |-> config.emb_config.additional_params],
     llm_config |->
        [llm_type |-> config.llm_config.llm_type.value,
         model_name |-> config.llm_config.model_name,
         max_tokens |-> config.llm_config.max_tokens,
         additional_params |-> config.llm_config.additional_params],
     vector_config |->
        [store_type |-> config.vector_config.store_type.value,
         persist_dir |-> str(config.vector_config.persist_dir),
         dimension |-> config.vector_config.dimension,
         additional_params |-> config.vector_config.additional_params],
     ignore_patterns |-> config.ignore_patterns,
     accepted_patterns |-> config.accepted_patterns]

\* the decimal digits, for the integers written to the file
Digits == <<"0", "1", "2", "3", "4", "5", "6", "7", "8", "9">>

IsIntText(s) == \E i \in DOMAIN Digits : Digits[i] = s

Plain(text) == [style |-> "plain", text |-> text]

Quoted(text) == [style |-> "quoted", text |-> text]

\* yaml.dump of a str: quoted when the plain text would not be read as a str
represent_str(s) ==
    IF IsIntText(s) \/ s \in {"null", "{}", "[]", "*.log", "*.py"}
    THEN Quoted(s) ELSE Plain(s)

\* yaml.dump of an int
represent_int(n) == Plain(Digits[n + 1])

\* yaml.dump of None
represent_none == Plain("null")

\* yaml.dump of an int or None
represent_opt_int(v) == IF v = NoneVal THEN represent_none ELSE represent_int(v[1])

\* yaml.dump of an empty dict or None
represent_params(v) == IF v = NoneVal THEN represent_none ELSE Plain("{}")

\* yaml.dump of a list of str
represent_list(l) == [i \in DOMAIN l |-> represent_str(l[i])]

\* yaml.dump(config_dict, default_flow_style=False, sort_keys=False)
yaml_dump(d) ==
    [root_dir |-> represent_str(d.root_dir),
     embedding_config |->
        [embedding_type |-> represent_str(d.embedding_config.embedding_type),
         model_name |-> represent_str(d.embedding_config.model_name),
         batch_size |-> represent_int(d.embedding_config.batch_size),
         dimension |-> represent_int(d.embedding_config.dimension),
         additional_params |-> represent_params(d.embedding_config.additional_params)],
     llm_config |->
        [llm_type |-> represent_str(d.llm_config.llm_type),
         model_name |-> represent_str(d.llm_config.model_name),
         max_tokens |-> represent_opt_int(d.llm_config.max_tokens),
         additional_params |-> represent_params(d.llm_config.additional_params)],
     vector_config |->
        [store_type |-> represent_str(d.vector_config.store_type),
         persist_dir |-> represent_str(d.vector_config.persist_dir),
         dimension |-> represent_int(d.vector_config.dimension),
         additional_params |-> represent_params(d.vector_config.additional_params)],
     ignore_patterns |-> represent_list(d.ignore_patterns),
     accepted_patterns |-> represent_list(d.accepted_patterns)]

\* the type yaml.safe_load gives a scalar
Resolve(tok) ==
    IF tok.style = "quoted" THEN "str"
    ELSE IF tok.text = "null" THEN "null"
    ELSE IF IsIntText(tok.text) THEN "int"
    ELSE IF tok.text = "{}" THEN "map"
    ELSE "str"

\* yaml.safe_load of a scalar written for a str
construct_str(tok) == tok.text

\* yaml.safe_load of a scalar written for an int
construct_int(tok) == (CHOOSE i \in DOMAIN Digits : Digits[i] = tok.text) - 1

\* yaml.safe_load of a scalar written for an int or None
construct_opt_int(tok) ==
    IF Resolve(tok) = "null" THEN NoneVal ELSE Some(construct_int(tok))

\* yaml.safe_load of a scalar written for a dict or None
construct_params(tok) ==
    IF Resolve(tok) = "null" THEN NoneVal ELSE Some(EmptyDict)

\* yaml.safe_load of a sequence of str
construct_list(l) == [i \in DOMAIN l |-> construct_str(l[i])]

\* yaml.safe_load
yaml_safe_load(doc) ==
    [root_dir |-> construct_str(doc.root_dir),
     embedding_config |->
        [embedding_type |-> construct_str(doc.embedding_config.embedding_type),
         model_name |-> construct_str(doc.embedding_config.model_name),
         batch_size |-> construct_int(doc.embedding_config.batch_size),
         dimension |-> construct_int(doc.embedding_config.dimension),
         additional_params |-> construct_params(doc.embedding_config.additional_params)],
     llm_config |->
        [llm_type |-> construct_str(doc.llm_config.llm_type),
         model_name |-> construct_str(doc.llm_config.model_name),
         max_tokens |-> construct_opt_int(doc.llm_config.max_tokens),
         additional_params |-> construct_params(doc.llm_config.additional_params)],
     vector_config |->
        [store_type |-> construct_str(doc.vector_config.store_type),
         persist_dir |-> construct_str(doc.vector_config.persist_dir),
         dimension |-> construct_int(doc.vector_config.dimension),
         additional_params |-> construct_params(doc.vector_config.additional_params)],
     ignore_patterns |-> construct_list(doc.ignore_patterns),
     accepted_patterns |-> construct_list(doc.accepted_patterns)]

\* dict.get(key, default)
Get(d, key, default) == IF key \in DOMAIN d THEN d[key] ELSE default

\* EmbeddingConfig.from_dict
EmbeddingConfig_from_dict(data) ==
    [embedding_type |-> EmbeddingProviderType(Get(data, "embedding_type", "openai")),
     model_name |-> Get(data, "model_name", "openai"),
     batch_size |-> Get(data, "batch_size", 100),
     dimension |-> Get(data, "dimension", 1536),
     additional_params |-> Get(data, "additional_params", NoneVal)]

\* LLMConfig.from_dict
LLMConfig_from_dict(data) ==
    [llm_type |-> LLMType(Get(data, "llm_type", "openai")),
     model_name |-> Get(data, "model_name", "openai"),
     max_tokens |-> Get(data, "max_tokens", NoneVal),
     additional_params |-> Get(data, "additional_params", NoneVal)]

\* VectorConfig.from_dict
VectorConfig_from_dict(data) ==
    [store_type |-> VectorStoreType(Get(data, "store_type", "faiss")),
     persist_dir |-> Path(Get(data, "persist_dir", "./vector_store")),
     dimension |-> Get(data, "dimension", 1536),
     additional_params |-> Get(data, "additional_params", NoneVal)]

\* ProjectConfig.from_dict: accepted_patterns is not passed to the
\* constructor and takes the default of the field, the empty list
ProjectConfig_from_dict(data) ==
    [root_dir |-> Path(data.root_dir),
     emb_config |-> EmbeddingConfig_from_dict(data.embedding_config),
     llm_config |-> LLMConfig_from_dict(data.llm_config),
     vector_config |-> VectorConfig_from_dict(data.vector_config),
     ignore_patterns |-> Get(data, "ignore_patterns", <<>>),
     accepted_patterns |-> <<>>]

\* ProjectConfig.validate_dimensions
validate_dimensions(config) ==
    config.vector_config.dimension = config.emb_config.dimension

\* ProjectManager.__save_config
C_Save(config) ==
    /\ cfg_saved' = Some(config)
    /\ cfg_file' = Some(yaml_dump(create_config_dict(config)))
    /\ UNCHANGED cfg_loaded
    /\ UNCHANGED <<fmvars, wvars, tvars, lvars, svars, gvars, kvars, hvars>>

\* ProjectManager.__load_config: raises when the file does not exist or the
\* configuration read is not valid
C_Load ==
    /\ cfg_file # NoneVal
    /\ LET config == ProjectConfig_from_dict(yaml_safe_load(cfg_file[1]))
       IN  /\ validate_dimensions(config)
           /\ cfg_loaded' = Some(config)
    /\ UNCHANGED <<cfg_saved, cfg_file>>
    /\ UNCHANGED <<fmvars, wvars, tvars, lvars, svars, gvars, kvars, hvars>>

\* no configuration file was written
CIdle ==
    /\ cfg_saved = NoneVal
    /\ cfg_file = NoneVal
    /\ cfg_loaded = NoneVal

ConfigNext ==
    \/ \E config \in Configs : C_Save(config)
    \/ C_Load

----
(***************************************************************************)
(* FileWatcher: the threaded change detector.  _handle_event runs on the   *)
(* observer thread and _flush_events on a Timer thread.  One _flush_events *)
(* call is followed at a time.                                             *)
(***************************************************************************)

\* FileWatcher.ignore_paths: "g"
ignore_paths == {<<"g">>}

\* FileWatcher._should_ignore
t_should_ignore(path) == \E ig \in ignore_paths : StartsWith(path, ig)

\* _handle_event, lines 85-86: the event is dropped
IgnoredByFileWatcher(path) == t_should_ignore(path)

\* self.pending_events[event.src_path] = file_event
DictSet(evs, e) ==
    IF IndexOf(evs, e.path) # 0 THEN [evs EXCEPT ![IndexOf(evs, e.path)] = e]
                                ELSE Append(evs, e)

NoFlush == [pc |-> "idle", idx |-> 0, size |-> 0]

\* no event was put yet
NoEvent == [type |-> "none", path |-> <<>>, mod_time |-> -1]

\* FileWatcher._handle_event
T_HandleEvent(kind, path) ==
    /\ detector = "threaded"
    /\ UNCHANGED <<fmvars, lvars, svars, gvars, cvars, kvars, hvars, now, events, last_flush_time,
                   event_queue, w_running,
                   pb_rest, detector>>
    /\ IF IgnoredByFileWatcher(path)
         THEN /\ w_last' = "ignored"
              /\ UNCHANGED tvars
         ELSE IF kind = "other"
           THEN /\ w_last' = "none"
                /\ UNCHANGED tvars
           ELSE /\ pending_events' =
                      DictSet(pending_events,
                              [type |-> kind, path |-> path, mod_time |-> now])
                /\ flush_timer' = now + FlushInterval
                /\ armed' = (armed \ {flush_timer}) \cup {now + FlushInterval}
                /\ w_last' = "none"
                /\ UNCHANGED <<t_queue, t_flush, t_lastput>>

\* a Timer comes due and starts _flush_events on its thread
T_Fire ==
    /\ detector = "threaded"
    /\ t_flush.pc = "idle"
    /\ \E d \in armed :
         /\ now >= d
         /\ armed' = armed \ {d}
    /\ t_flush' = [pc |-> "iter", idx |-> 0, size |-> Len(pending_events)]
    /\ w_last' = "none"
    /\ UNCHANGED <<fmvars, lvars, svars, gvars, cvars, kvars, hvars, now, events, last_flush_time,
                   event_queue, w_running,
                   pb_rest, detector, pending_events, flush_timer, t_queue, t_lastput>>

\* _flush_events, lines 112-116: the next step of the loop over
\* pending_events.values(); the iterator raises when the dict changed size,
\* and event_queue.put waits while the queue is full (it never raises Full)
T_FlushPut ==
    /\ detector = "threaded"
    /\ t_flush.pc = "iter"
    /\ IF Len(pending_events) # t_flush.size
         THEN /\ t_flush' = NoFlush
              /\ UNCHANGED <<t_queue, t_lastput>>
         ELSE /\ t_flush.idx < Len(pending_events)
              /\ Len(t_queue) < TQueueCap
              /\ t_queue' = Append(t_queue, pending_events[t_flush.idx + 1])
              /\ t_lastput' = pending_events[t_flush.idx + 1]
              /\ t_flush' = [t_flush EXCEPT !.idx = @ + 1]
    /\ w_last' = "none"
    /\ UNCHANGED <<fmvars, lvars, svars, gvars, cvars, kvars, hvars, now, events, last_flush_time,
                   event_queue, w_running,
                   pb_rest, detector, pending_events, flush_timer, armed>>

\* _flush_events, lines 117-118: the loop is over
T_FlushEnd ==
    /\ detector = "threaded"
    /\ t_flush.pc = "iter"
    /\ Len(pending_events) = t_flush.size
    /\ t_flush.idx = Len(pending_events)
    /\ pending_events' = <<>>
    /\ flush_timer' = -1
    /\ t_flush' = NoFlush
    /\ w_last' = "none"
    /\ UNCHANGED <<fmvars, lvars, svars, gvars, cvars, kvars, hvars, now, events, last_flush_time,
                   event_queue, w_running,
                   pb_rest, detector, armed, t_queue, t_lastput>>

\* FileWatcher.events: the consumer takes the next event
T_Consume ==
    /\ detector = "threaded"
    /\ t_queue # <<>>
    /\ t_queue' = Tail(t_queue)
    /\ w_last' = "none"
    /\ UNCHANGED <<fmvars, lvars, svars, gvars, cvars, kvars, hvars, now, events, last_flush_time,
                   event_queue, w_running,
                   pb_rest, detector, pending_events, flush_timer, armed, t_flush,
                   t_lastput>>

\* the initial state of the threaded change detector
TInit ==
    /\ pending_events = <<>>
    /\ flush_timer = -1
    /\ armed = {}
    /\ t_queue = <<>>
    /\ t_flush = NoFlush
    /\ t_lastput = NoEvent

\* the initial state of the asynchronous change detector
WInit ==
    /\ now = 0
    /\ events = <<>>
    /\ last_flush_time = 0
    /\ event_queue = <<>>
    /\ w_running = TRUE
    /\ pb_rest = <<>>
    /\ w_last = "none"
    /\ detector = "async"

FmInit ==
    /\ processed_files = <<>>
    /\ batch_queue = <<>>
    /\ store = {}
    /\ proc = Idle
    /\ bp_pc = "collect"
    /\ batch = <<>>
    /\ tasks = <<>>
    /\ is_running = TRUE
    /\ last = NoObs
    /\ unfinished_tasks = FALSE
    /\ w_unfinished = 0
    /\ c_pc = "get"
    /\ w_stop_pc = "idle"

\* no start() or stop() call is followed: the handlers are driven directly
LInit ==
    /\ start_pc = "idle"
    /\ boot_rest = <<>>
    /\ stop_pc = [i \in 1..MaxStops |-> "idle"]
    /\ stop_item = [i \in 1..MaxStops |-> "none"]

Init == FmInit /\ WInit /\ TInit /\ LInit /\ GIdle /\ CIdle /\ KIdle /\ HIdle

Next ==
    \/ \E t \in EventTypes, p \in Paths : HandleFileEvent(t, p)
    \/ \E p \in Paths : EnqueueExisting(p)
    \/ BP_Get
    \/ BP_Gather
    \/ BP_Done
    \/ PF_BeginBatch
    \/ PF_Read
    \/ PF_Delete
    \/ PF_Add


Spec == Init /\ [][Next]_vars

\* either detector is constructed
WatchInit ==
    /\ FmInit
    /\ GIdle
    /\ CIdle
    /\ KIdle
    /\ HIdle
    /\ LInit
    /\ TInit
    /\ now = 0
    /\ events = <<>>
    /\ last_flush_time = 0
    /\ event_queue = <<>>
    /\ w_running = TRUE
    /\ pb_rest = <<>>
    /\ w_last = "none"
    /\ detector \in {"async", "threaded"}

WNext ==
    \/ \E k \in NativeKinds, p \in WPaths : WHandleEvent(k, p)
    \/ PB_Flush
    \/ PB_Put
    \/ W_Consume
    \/ \E k \in NativeKinds, p \in WPaths : T_HandleEvent(k, p)
    \/ T_Fire
    \/ T_FlushPut
    \/ T_FlushEnd
    \/ T_Consume
    \/ Tick

\* the change detectors on their own
SpecWatch == WatchInit /\ [][WNext]_vars

\* the exclusion rules and the scanner on their own
IgnoreInit == FmInit /\ WInit /\ TInit /\ LInit /\ GInit /\ CIdle /\ KIdle /\ HIdle

SpecIgnore == IgnoreInit /\ [][IgnoreNext]_vars

ConfigInit == FmInit /\ WInit /\ TInit /\ LInit /\ GIdle /\ CIdle /\ KIdle /\ HIdle

SpecConfig == ConfigInit /\ [][ConfigNext]_vars

LockInit == FmInit /\ WInit /\ TInit /\ LInit /\ GIdle /\ CIdle /\ KIdle /\ HIdle

SpecLock == LockInit /\ [][LockNext]_vars

HandOffInit == FmInit /\ WInit /\ TInit /\ LInit /\ GIdle /\ CIdle /\ KIdle /\ HIdle

SpecHandOff == HandOffInit /\ [][HandOffNext]_vars


----
(***************************************************************************)
(* The lifecycle of the synchronizer: FileManager.start and                *)
(* FileManager.stop, with the asynchronous change detector under them.     *)
(* start() is followed once (a second watch() would restart the observer   *)
(* thread, which watchdog refuses); stop() may be called MaxStops times,   *)
(* at any moment.                                                          *)
(***************************************************************************)

\* the files rglob yields at bootstrap: each file once
Snapshots == {<<>>, <<"a.py">>, <<"a.py", "b.py">>, <<"b.py", "a.py">>}

\* the native event the lifecycle model lets the observer report
LifeKinds == {"FILE_MODIFIED"}
LifePaths == {P_a}

StopOwner(i) == <<"stop", i>>

\* start, lines 84-90: is_running is set, watch() starts the observer and the
\* flush task, the batch processor task is created and start awaits its end
L_Start ==
    /\ start_pc = "idle"
    /\ ~is_running
    /\ is_running' = TRUE
    /\ w_running' = TRUE
    /\ bp_pc' = "collect"
    /\ start_pc' = "await_bp"
    /\ last' = NoObs
    /\ UNCHANGED <<processed_files, batch_queue, store, proc, batch, tasks,
                   unfinished_tasks>>
    /\ UNCHANGED <<now, events, last_flush_time, event_queue, pb_rest, w_last,
                   detector>>
    /\ UNCHANGED <<boot_rest, stop_pc, stop_item>>
    /\ UNCHANGED tvars
    /\ UNCHANGED gvars
    /\ UNCHANGED cvars
    /\ UNCHANGED kvars
    /\ UNCHANGED hvars
    /\ UNCHANGED svars

\* __batch_processor, line 134: the wait for an item timed out with an empty
\* batch and is_running is off: the loop and the task end
BP_Exit ==
    /\ bp_pc = "collect"
    /\ batch = <<>>
    /\ ~is_running
    /\ bp_pc' = "exited"
    /\ last' = NoObs
    /\ UNCHANGED <<processed_files, batch_queue, store, proc, batch, tasks,
                   is_running, unfinished_tasks>>
    /\ UNCHANGED wvars
    /\ UNCHANGED tvars
    /\ UNCHANGED gvars
    /\ UNCHANGED cvars
    /\ UNCHANGED kvars
    /\ UNCHANGED hvars
    /\ UNCHANGED svars
    /\ UNCHANGED lvars

\* start, line 92: the awaited batch processor task has ended and
\* __process_existing_files begins its walk of the tree
L_BootBegin ==
    /\ start_pc = "await_bp"
    /\ bp_pc = "exited"
    /\ start_pc' = "bootstrap"
    /\ boot_rest' \in Snapshots
    /\ UNCHANGED <<stop_pc, stop_item>>
    /\ UNCHANGED fmvars
    /\ UNCHANGED wvars
    /\ UNCHANGED tvars
    /\ UNCHANGED gvars
    /\ UNCHANGED cvars
    /\ UNCHANGED kvars
    /\ UNCHANGED hvars
    /\ UNCHANGED svars

\* __process_existing_files, line 127: the next file is put on batch_queue
L_BootPut ==
    /\ start_pc = "bootstrap"
    /\ boot_rest # <<>>
    /\ QueuePut(Head(boot_rest))
    /\ boot_rest' = Tail(boot_rest)
    /\ last' = NoObs
    /\ UNCHANGED <<processed_files, store, proc, bp_pc, batch, tasks, is_running>>
    /\ UNCHANGED <<start_pc, stop_pc, stop_item>>
    /\ UNCHANGED wvars
    /\ UNCHANGED tvars
    /\ UNCHANGED gvars
    /\ UNCHANGED cvars
    /\ UNCHANGED kvars
    /\ UNCHANGED hvars
    /\ UNCHANGED svars

\* start, lines 94-95: the walk is over; get_event loops while the detector
\* is running, otherwise start returns
L_BootEnd ==
    /\ start_pc = "bootstrap"
    /\ boot_rest = <<>>
    /\ start_pc' = IF w_running THEN "events" ELSE "returned"
    /\ UNCHANGED <<boot_rest, stop_pc, stop_item>>
    /\ UNCHANGED fmvars
    /\ UNCHANGED wvars
    /\ UNCHANGED tvars
    /\ UNCHANGED gvars
    /\ UNCHANGED cvars
    /\ UNCHANGED kvars
    /\ UNCHANGED hvars
    /\ UNCHANGED svars

\* stop, lines 106-109: is_running is cleared and AsyncFileWatcher.stop runs:
\* it returns at once when the detector is not running; otherwise it stops
\* the observer and awaits event_queue.join(), which returns only when every
\* event put on event_queue was taken and marked done
L_Stop(i) ==
    /\ stop_pc[i] = "idle"
    /\ is_running' = FALSE
    /\ w_running' = FALSE
    /\ stop_pc' = [stop_pc EXCEPT
                     ![i] = IF w_running /\ w_unfinished > 0 THEN "wjoin"
                                                               ELSE "drain"]
    /\ last' = NoObs
    /\ UNCHANGED <<processed_files, batch_queue, store, proc, bp_pc, batch,
                   tasks, unfinished_tasks>>
    /\ UNCHANGED <<now, events, last_flush_time, event_queue, pb_rest, w_last,
                   detector>>
    /\ UNCHANGED <<start_pc, boot_rest, stop_item>>
    /\ UNCHANGED tvars
    /\ UNCHANGED gvars
    /\ UNCHANGED cvars
    /\ UNCHANGED kvars
    /\ UNCHANGED hvars
    /\ UNCHANGED svars

\* stop, lines 111-112: batch_queue is not empty and get() takes its head
L_DrainGet(i) ==
    /\ stop_pc[i] = "drain"
    /\ proc.owner # StopOwner(i)
    /\ batch_queue # <<>>
    /\ stop_item' = [stop_item EXCEPT ![i] = Head(batch_queue)]
    /\ batch_queue' = Tail(batch_queue)
    /\ stop_pc' = [stop_pc EXCEPT ![i] = "lock"]
    /\ last' = NoObs
    /\ UNCHANGED <<processed_files, store, proc, bp_pc, batch, tasks,
                   is_running, unfinished_tasks>>
    /\ UNCHANGED <<start_pc, boot_rest>>
    /\ UNCHANGED wvars
    /\ UNCHANGED tvars
    /\ UNCHANGED gvars
    /\ UNCHANGED cvars
    /\ UNCHANGED kvars
    /\ UNCHANGED hvars
    /\ UNCHANGED svars

\* stop, line 113: the __process_file of the item takes _process_lock; stop
\* is back at the head of its loop when the call has returned
L_DrainLock(i) ==
    /\ stop_pc[i] = "lock"
    /\ PF_Begin(StopOwner(i), stop_item[i])
    /\ stop_item' = [stop_item EXCEPT ![i] = "none"]
    /\ stop_pc' = [stop_pc EXCEPT ![i] = "drain"]
    /\ UNCHANGED <<processed_files, batch_queue, store, bp_pc, batch, tasks,
                   is_running, unfinished_tasks>>
    /\ UNCHANGED <<start_pc, boot_rest>>
    /\ UNCHANGED wvars
    /\ UNCHANGED tvars
    /\ UNCHANGED gvars
    /\ UNCHANGED cvars
    /\ UNCHANGED kvars
    /\ UNCHANGED hvars
    /\ UNCHANGED svars

\* join() taken to return whatever the count of unfinished items
JoinAlwaysReturns == TRUE

\* asyncio.Queue.join on batch_queue returns when no item is unfinished
JoinReturns == ~unfinished_tasks

\* stop, lines 111 and 115-116: batch_queue is empty; join() returns and so
\* does stop, or join() waits
L_StopEnd(i) ==
    /\ stop_pc[i] = "drain"
    /\ proc.owner # StopOwner(i)
    /\ batch_queue = <<>>
    /\ stop_pc' = [stop_pc EXCEPT ![i] = IF JoinReturns THEN "returned" ELSE "join"]
    /\ UNCHANGED <<start_pc, boot_rest, stop_item>>
    /\ UNCHANGED fmvars
    /\ UNCHANGED wvars
    /\ UNCHANGED tvars
    /\ UNCHANGED gvars
    /\ UNCHANGED cvars
    /\ UNCHANGED kvars
    /\ UNCHANGED hvars
    /\ UNCHANGED svars

\* the state after the FileManager and its detector are constructed; the
\* first flush of the detector is already due
LifeInit ==
    /\ processed_files = <<>>
    /\ batch_queue = <<>>
    /\ store = {}
    /\ proc = Idle
    /\ bp_pc = "none"
    /\ batch = <<>>
    /\ tasks = <<>>
    /\ is_running = FALSE
    /\ last = NoObs
    /\ unfinished_tasks = FALSE
    /\ now = CoalesceWindow
    /\ events = <<>>
    /\ last_flush_time = 0
    /\ event_queue = <<>>
    /\ w_running = FALSE
    /\ pb_rest = <<>>
    /\ w_last = "none"
    /\ detector = "async"
    /\ TInit
    /\ start_pc = "idle"
    /\ boot_rest = <<>>
    /\ stop_pc = [i \in 1..MaxStops |-> "idle"]
    /\ stop_item = [i \in 1..MaxStops |-> "none"]
    /\ w_unfinished = 0
    /\ c_pc = "none"
    /\ w_stop_pc = "idle"
    /\ GIdle
    /\ CIdle
    /\ KIdle
    /\ HIdle

\* the batch processor never gets an item in a lifecycle (items are enqueued
\* only after it has ended), no path is enqueued twice, and start never
\* reaches its event loop: the steps that need these are not steps of LifeNext
LifeNext ==
    \/ L_Start
    \/ BP_Exit
    \/ L_BootBegin
    \/ L_BootPut
    \/ L_BootEnd
    \/ \E i \in 1..MaxStops : L_Stop(i)
    \/ \E i \in 1..MaxStops : L_DrainGet(i)
    \/ \E i \in 1..MaxStops : L_DrainLock(i)
    \/ \E i \in 1..MaxStops : L_StopEnd(i)
    \/ PF_Read
    \/ PF_Add
    \/ \E k \in LifeKinds, p \in LifePaths : WHandleEvent(k, p)
    \/ PB_Flush
    \/ PB_Put

SpecLife == LifeInit /\ [][LifeNext]_vars

\* the asynchronous detector is running and a consumer waits in get_event
StopInit ==
    /\ WatchInit
    /\ detector = "async"

StopNext ==
    \/ \E k \in LifeKinds, p \in WPaths : WHandleEvent(k, p)
    \/ PB_Flush
    \/ PB_Put
    \/ W_Get
    \/ W_TaskDone
    \/ W_Stop
    \/ W_StopReturn
    \/ Tick

\* the asynchronous detector with its consumer and its stop()
SpecStop == StopInit /\ [][StopNext]_vars

----
(***************************************************************************)
(* Claims about the index synchronizer, checked under Spec.                *)
(***************************************************************************)

IsDeleteEventStep(p) ==
    /\ p \in DOMAIN processed_files
    /\ p \notin DOMAIN processed_files'
    /\ proc' = proc

\* C2: handling a deleted event for a path that has a record deletes the
\* record's vector ids from the store and removes the record; a deleted event
\* for a path with no record changes nothing.
C2_DeleteEventDeletesVectors ==
    [][\A p \in Paths :
          IsDeleteEventStep(p) =>
             {e \in store' : e.id \in Range(processed_files[p].vector_ids)} = {}]_vars

\* C3: when the read of a path returns a content whose hash is the recorded
\* one, __process_file ends there: no collaborator call is started and the
\* record map and the store stay as they are.
C3_UnchangedFileIsSkipped ==
    [][(/\ proc.pc = "read"
        /\ last'.read \in Contents
        /\ proc.path \in DOMAIN processed_files
        /\ processed_files[proc.path].content_hash = hash_content(last'.read))
       => (/\ last'.call = "none"
           /\ proc' = Idle
           /\ processed_files' = processed_files
           /\ store' = store)]_vars

\* C3 witness: a read has just returned the recorded content and was skipped
C3_Witness ==
    /\ last.read \in Contents
    /\ last.call = "none"
    /\ \E p \in DOMAIN processed_files :
          processed_files[p].content_hash = hash_content(last.read)

----
(***************************************************************************)
(* Claims about the lifecycle, checked under SpecLife.                     *)
(***************************************************************************)

\* C5: the bootstrap comes first: when start() begins to enqueue the files
\* of the snapshot the synchronizer is running and no stop() has been called.
C5_BootstrapBeforeStop ==
    [][(start_pc # "bootstrap" /\ start_pc' = "bootstrap")
       => (/\ is_running
           /\ \A i \in 1..MaxStops : stop_pc[i] = "idle")]_vars

----
(***************************************************************************)
(* Claims about the change detectors, checked under SpecWatch.             *)
(***************************************************************************)

\* C7: a buffered event that is younger than the coalescing window is never
\* replaced by a later event for its path (the later event is discarded; the
\* buffered one leaves the buffer only by a flush), and the buffer never
\* holds two events for one path.
C7_FirstEventInWindowWins ==
    /\ [](\A i, j \in DOMAIN events : events[i].path = events[j].path => i = j)
    /\ [][\A i \in DOMAIN events :
             now - events[i].mod_time < CoalesceWindow =>
                \/ events' = <<>>
                \/ (i \in DOMAIN events' /\ events'[i] = events[i])]_vars

\* C7 witness: add_event has just discarded an event
C7_Witness ==
    /\ detector = "async"
    /\ w_last = "discarded"
    /\ events # <<>>

\* the events that have left the coalescing buffer for the output queue
Flushed == event_queue \o pb_rest

\* C8: of the events for one path that arrive within one coalescing window,
\* at most one is moved from the buffer to the output queue.
C8_OneEventPerWindow ==
    \A i, j \in DOMAIN Flushed :
        (i < j /\ Flushed[i].path = Flushed[j].path) =>
            Flushed[j].mod_time - Flushed[i].mod_time >= CoalesceWindow

\* C9: no event whose path the ignore check rejects is in a coalescing buffer
\* or in an output queue, in AsyncFileWatcher and in the threaded FileWatcher.
C9_IgnoredNeverBuffered ==
    /\ \A i \in DOMAIN events : ~should_ignore(events[i].path)
    /\ \A i \in DOMAIN pb_rest : ~should_ignore(pb_rest[i].path)
    /\ \A i \in DOMAIN event_queue : ~should_ignore(event_queue[i].path)
    /\ \A i \in DOMAIN pending_events : ~t_should_ignore(pending_events[i].path)
    /\ \A i \in DOMAIN t_queue : ~t_should_ignore(t_queue[i].path)

\* C9 witness: an event for an ignored path has just been handled
C9_Witness == w_last = "ignored"

\* C10: the flush task never waits: while it has an event to enqueue it can
\* take its next step, also when the output queue is at capacity.
C10_FlushNeverBlocks ==
    /\ pb_rest # <<>> => ENABLED PB_Put
    /\ t_flush.pc = "iter" => ENABLED (T_FlushPut \/ T_FlushEnd)

----
(***************************************************************************)
(* Claims about AsyncFileWatcher.stop, checked under SpecStop.             *)
(***************************************************************************)

\* C11: when AsyncFileWatcher.stop() has returned the detector accepts no
\* event any more, no flush has an event left to hand over, and the output
\* queue is empty: stop() reports stopped only after the queue is drained.
C11_StopAfterDrain ==
    w_stop_pc = "returned" =>
        /\ ~w_running
        /\ pb_rest = <<>>
        /\ event_queue = <<>>

----
(***************************************************************************)
(* Claims about the exclusion rules and the scanner, checked under         *)
(* SpecIgnore.                                                             *)
(***************************************************************************)

\* the greatest element of a non-empty set of numbers
MaxOf(S) == CHOOSE x \in S : \A y \in S : y <= x

\* the places of the loaded rules that match the path
MatcherMatches(path) ==
    {i \in DOMAIN m_patterns : does_pattern_match(path, m_patterns[i])}

\* the places of the root rules that match the path for the scanner
ScannerMatches(path) ==
    {i \in DOMAIN gi_lines :
        match_gitignore_pattern(parse_gitignore(gi_lines)[i].pattern, path)}

\* C12: is_path_ignored returns the verdict of the last rule that matches
\* the path (ignored unless that rule is negated) and false when no rule
\* matches; with the rules "*.l", "!k.l" it returns false for k.l and true
\* for o.l.
C12_LastMatchWins ==
    /\ gi_query.who = "matcher" =>
         LET M == MatcherMatches(gi_query.path)
         IN gi_query.ignored = (M # {} /\ ~m_patterns[MaxOf(M)].is_negated)
    /\ gi_query.who = "scanner" =>
         LET M == ScannerMatches(gi_query.path)
         IN gi_query.ignored = (M # {} /\ Head(gi_lines[MaxOf(M)]) # "!")
    /\ (/\ gi_query.who = "scanner" \/ (gi_query.who = "matcher" /\ Len(m_patterns) = 2)
        /\ gi_lines = <<L_star_l, L_not_k>>
        /\ gi_sub_lines = <<>>)
       => /\ gi_query.path = F_kl => ~gi_query.ignored
          /\ gi_query.path = F_ol => gi_query.ignored

\* C12 witness: with the rules "*.l", "!k.l" loaded the matcher was asked
\* about k.l and answered that it is not ignored
C12_Witness ==
    /\ gi_query.who = "matcher"
    /\ gi_lines = <<L_star_l, L_not_k>>
    /\ Len(m_patterns) = 2
    /\ gi_query.path = F_kl
    /\ ~gi_query.ignored

\* C13: with the directory-only rule "s/" as the only rule, a regular file
\* named s is not ignored (s/b, beneath the directory s, is).
C13_DirOnlyRuleSparesFile ==
    (/\ gi_query.who = "scanner" \/ (gi_query.who = "matcher" /\ Len(m_patterns) = 1)
     /\ gi_lines = <<L_dir_s>>
     /\ gi_sub_lines = <<>>)
    => /\ gi_query.path = F_s => ~gi_query.ignored
       /\ gi_query.path = F_sb => gi_query.ignored

\* C14: an anchored rule without wildcards matches exactly the path that is
\* its pattern, taken from the rule's directory: the root rule "/b" ignores
\* b and not s/b, and "/b" in s/.gitignore matches s/b only.
C14_AnchoredMatchesFromOrigin ==
    /\ gi_query.who = "matcher" =>
         \A i \in DOMAIN m_patterns :
            m_patterns[i].is_anchored =>
               (does_pattern_match(gi_query.path, m_patterns[i])
                  <=> gi_query.path = m_patterns[i].base_dir \o m_patterns[i].pattern)
    /\ (gi_query.who = "scanner" /\ gi_lines = <<L_anc_b>>)
         => (gi_query.ignored <=> gi_query.path = F_b)
    /\ (gi_query.who = "matcher" /\ Len(m_patterns) = 1 /\ gi_lines = <<L_anc_b>>)
         => (gi_query.ignored <=> gi_query.path = F_b)

\* C14 witness: with "/b" as the only root rule the matcher was asked about
\* s/b and answered that it is not ignored
C14_Witness ==
    /\ gi_query.who = "matcher"
    /\ gi_lines = <<L_anc_b>>
    /\ Len(m_patterns) = 1
    /\ gi_query.path = F_sb
    /\ ~gi_query.ignored

\* C15: the scanner applies the rules of every rule file of the tree, the
\* deeper ones later: with the root rule "*.l" and "!k.l" in s/.gitignore,
\* the scan of the tree {a, b.l, s/k.l, s/o.l} returns, of these files,
\* exactly a and s/k.l.
C15_NestedRulesApplied ==
    (/\ sc_pc = "returned"
     /\ sc_denied = {}
     /\ gi_lines = <<L_star_l>>
     /\ gi_sub_lines = <<L_not_k>>
     /\ gi_tree = {F_a, F_bl, F_skl, F_sol})
    => Range(sc_files) \cap gi_tree = {F_a, F_skl}

\* the path itself and the directories above it
SelfAndAncestors(f) == {JoinSegs(Segments(f), k) : k \in 1..Len(Segments(f))}

\* no rule the scanner loaded ignores the file or a directory above it
NotIgnoredByLoadedRules(f) ==
    \A q \in SelfAndAncestors(f) :
        ~RepoScanner_is_path_ignored(q, parse_gitignore(gi_lines))

\* the file lies beneath a directory of the given name
BeneathDirNamed(f, name) ==
    \E k \in 1..(Len(Segments(f)) - 1) : Segments(f)[k] = name

C17_StateDirsNeverScanned ==
    sc_pc = "returned" =>
        \A i \in DOMAIN sc_files :
            /\ ~BeneathDirNamed(sc_files[i], N_git)
            /\ ~BeneathDirNamed(sc_files[i], N_gep)

\* C18: a scan never ends with an exception: whatever fails while a
\* directory is listed or a file is examined, scan returns a list.
C18_ScanAlwaysReturns == sc_pc # "raised"

----
(***************************************************************************)
(* Claims about the threaded change detector, checked under SpecWatch.     *)
(***************************************************************************)

\* C19: of the events for one path that arrive less than the flush interval
\* apart only one is put on the queue: an event put for the path of the
\* event put before it arrived at least a flush interval later.
C19_OneEventPerBurst ==
    [][(/\ t_lastput' # t_lastput
        /\ t_lastput.mod_time # -1
        /\ t_lastput'.path = t_lastput.path
        /\ t_lastput'.mod_time # t_lastput.mod_time)
       => t_lastput'.mod_time - t_lastput.mod_time >= FlushInterval]_vars

----
(***************************************************************************)
(* Claims about the project configuration, checked under SpecConfig.       *)
(***************************************************************************)

\* C20: the configuration __load_config returns equals, in every field, the
\* configuration __save_config wrote last.
C20_LoadReturnsSaved ==
    [][cfg_loaded' # cfg_loaded => cfg_loaded' = cfg_saved]_vars

----
(***************************************************************************)
(* Further claims about the index synchronizer, checked under Spec.        *)
(***************************************************************************)

\* C21: the previous vector ids of a path are deleted only after the new
\* ones have been stored: a step that deletes ids of a path leaves the new
\* ids of the path in the store.
C21_StoreBeforeDelete ==
    [][\A p \in Paths :
         (StoredIds(p)' # StoredIds(p) /\ StoredIds(p)' \subseteq StoredIds(p))
         => StoredIds(p)' # {}]_vars

\* nothing is pending for path p: it is in no queue, batch or gather and no
\* __process_file holds it
NothingPending(p) ==
    /\ proc.path # p
    /\ \A i \in DOMAIN batch_queue : batch_queue[i] # p
    /\ \A i \in DOMAIN batch : batch[i] # p
    /\ \A i \in DOMAIN tasks : tasks[i] # p

----
(***************************************************************************)
(* Further claims about the exclusion rules, checked under SpecIgnore.      *)
(***************************************************************************)

\* C26: a rule loaded from s/.gitignore is applicable to a path exactly when
\* the path is the directory s itself or lies beneath it.
C26_RuleAppliesWithinOrigin ==
    gi_query.who = "matcher" =>
       \A i \in DOMAIN m_patterns :
          m_patterns[i].base_dir # <<>> =>
             (is_pattern_applicable(gi_query.path, m_patterns[i])
                <=> (gi_query.path = N_s \/ StartsWith(gi_query.path, <<"s", "/">>)))

----
(***************************************************************************)
(* Further claims about the lifecycle, checked under SpecLife.             *)
(***************************************************************************)

----
(***************************************************************************)
(* Further claims about AsyncFileWatcher.stop, checked under SpecStop.     *)
(***************************************************************************)

\* C28: stop() returns in the end, also when the consumer of get_event has
\* left its loop.  Only the consumer marks events as done, so a stop() that
\* waits in event_queue.join() after the consumer has left waits for ever:
\* stop() is never in that wait once the consumer is gone.
C28_StopNotLeftWaiting ==
    ~(w_stop_pc = "join" /\ c_pc = "exited")

----
(***************************************************************************)
(* Claims about events that interleave with work in progress.  C29 is      *)
(* checked under Spec, C30 under SpecWatch.                                *)
(***************************************************************************)

\* an indexing operation of a path that had a record with vector ids when
\* its read returned is suspended in a collaborator call, and the record is
\* gone: a deleted event for the path was handled meanwhile
DeletedInFlight ==
    /\ proc.pc \in {"delete", "add"}
    /\ proc.old # <<>>
    /\ proc.path \notin DOMAIN processed_files

C30_ClearedEventsWerePut ==
    [][(pending_events # <<>> /\ pending_events' = <<>>)
       => pending_events[Len(pending_events)] = t_lastput]_vars

----
(***************************************************************************)
(* Claims about _process_lock, checked under SpecLock.                     *)
(***************************************************************************)

\* the call is between taking the lock and releasing it
InFlight(i) == pf_calls[i].pc \in {"read", "embed"}

\* C24: at most one indexing operation is in flight for a path at any time,
\* also when the path is twice in the batch of a gather or stop() processes
\* it while the calls of the gather are running.
C24_OneOperationPerPath ==
    \A i, j \in Calls :
        (i # j /\ InFlight(i) /\ InFlight(j)) => pf_calls[i].path # pf_calls[j].path

\* C24 witness: a call of the gather is in flight while another call of the
\* same gather and the call of stop() wait for the lock with the same path
C24_Witness ==
    \E i, j \in GatherCalls :
        /\ i # j
        /\ InFlight(i)
        /\ pf_calls[j] = [pc |-> "wait", path |-> pf_calls[i].path]
        /\ pf_calls[StopCall] = [pc |-> "wait", path |-> pf_calls[i].path]

----
(***************************************************************************)
(* Claims about the hand-off of native events, checked under SpecHandOff.  *)
(***************************************************************************)

\* C25: the coalescing buffer and the pending-task set change only in steps
\* the event loop's thread takes; a step of the observer thread hands the
\* event over and changes neither, and a task is created only for the event
\* handed over first.
C25_MutationsInLoop ==
    [][/\ (events' # events \/ pending_tasks' # pending_tasks) => w_thread' = "loop"
       /\ Len(pending_tasks') > Len(pending_tasks)
            => (/\ loop_ready # <<>>
                /\ pending_tasks' = Append(pending_tasks, Head(loop_ready)))]_vars

\* C25 witness: an event received on the observer thread has been handled in
\* the event loop and is in the buffer, while another one is handed over
C25_Witness ==
    /\ events # <<>>
    /\ loop_ready # <<>>
    /\ pending_tasks = <<>>
    /\ w_thread = "observer"

====
